---- MODULE Spec2Model ----
(***************************************************************************)
(* The user-account service of culturelist: the users table, the storage   *)
(* layer (src/storage/users_storage.rs), the service layer                 *)
(* (src/services/users_service.rs) and the request validation              *)
(* (src/models/user.rs).                                                   *)
(*                                                                         *)
(* Strings are sequences of one-character strings, so that to_lowercase,   *)
(* the password classes and the length rule are computed character by      *)
(* character.  Option<T> is a sequence of length 0 (None) or 1 (Some).     *)
(* Result<T, E> is a record [ok, val, err].  An error message is the       *)
(* sequence of the fragments whose concatenation is the message text.      *)
(*                                                                         *)
(* Every handler is an async fn and runs as one step per awaited query:    *)
(* between two steps of one request the steps of other requests can run,   *)
(* and inflight holds what each handler holds at its await.  The clock     *)
(* ticks when a request arrives.  Spec models a store that answers every   *)
(* query (no connection failure) and SpecFault one whose connection pool   *)
(* can time out.  SpecPw runs validate_password alone, SpecList the        *)
(* paginated search over created accounts, SpecWeb the login and signup    *)
(* forms with their browser sessions, SpecHash hash_password and           *)
(* verify_password on pairs of passwords.                                  *)
(***************************************************************************)
EXTENDS Integers, Sequences, FiniteSets, TLC

VARIABLES
    users,      \* the rows of the users table
    nextId,     \* source of fresh identifiers (the table's id default)
    now,        \* the server clock: one tick per request served
    last,       \* the last request and its response
    pw,         \* SpecPw: the password handed to validate_password
    verdict,    \* SpecPw: what validate_password returned for pw
    session,    \* SpecWeb: the user id each browser session is logged in with
    hashing,    \* SpecHash: two passwords, the hashes made and their checks
    inflight    \* what the handler of each client holds at its await

vars == <<users, nextId, now, last, pw, verdict, session, hashing, inflight>>

----------------------------------------------------------------------------
(* Bounds of the model *)

MaxIds == 2          \* rows ever inserted
MaxSteps == 3        \* requests served
NumSalts == 2        \* salts the random generator can draw
MaxPwLen == 4        \* SpecPw: longest password enumerated
MaxHashes == 2       \* SpecHash: hashes made of one password

(* Program constants *)

PasswordMin == 8
PasswordMax == 64
SevenDays == 604800

----------------------------------------------------------------------------
(* Option and Result *)

None == <<>>
Some(x) == <<x>>
IsSome(o) == Len(o) = 1
Unwrap(o) == o[1]

NoVal == <<>>
NoErr == [kind |-> "none", msg |-> <<>>]
Ok(v) == [ok |-> TRUE, val |-> v, err |-> NoErr]
Err(e) == [ok |-> FALSE, val |-> NoVal, err |-> e]

(* UsersServiceError, users_service.rs:18-23 *)
NotFound == [kind |-> "NotFound", msg |-> <<>>]
WrongCredentials(m) == [kind |-> "WrongCredentials", msg |-> m]
DatabaseError(m) == [kind |-> "DatabaseError", msg |-> m]
VerificationError(m) == [kind |-> "VerificationError", msg |-> m]

(* sqlx errors the storage layer produces *)
WorkerCrashed == <<"WorkerCrashed">>
UniqueViolation == <<"duplicate key value violates unique constraint">>

----------------------------------------------------------------------------
(* Characters *)

UpperChars == {"A", "B", "D"}
LowerChars == {"a", "b", "c", "d", "e", "k", "n", "o", "w"}
DigitChars == {"1", "2"}
SpecialChars == {"!", "@", "#", "$", "%", "^", "&", "*", "(", ")", "_", "+",
                 "-", "=", "[", "]", "{", "}", "|", ";", ":", ",", ".", "<",
                 ">", "?"}

LowerChar(c) ==
    CASE c = "A" -> "a"
      [] c = "B" -> "b"
      [] c = "D" -> "d"
      [] OTHER -> c

to_lowercase(s) == [i \in 1..Len(s) |-> LowerChar(s[i])]

RECURSIVE Join(_, _)
Join(parts, sep) ==
    IF Len(parts) = 0 THEN <<>>
    ELSE IF Len(parts) = 1 THEN <<parts[1]>>
    ELSE <<parts[1], sep>> \o Join(Tail(parts), sep)

(* join over parts that are themselves fragment sequences *)
RECURSIVE JoinSeqs(_, _)
JoinSeqs(parts, sep) ==
    IF Len(parts) = 0 THEN <<>>
    ELSE IF Len(parts) = 1 THEN parts[1]
    ELSE parts[1] \o <<sep>> \o JoinSeqs(Tail(parts), sep)

----------------------------------------------------------------------------
(* Request validation, models/user.rs *)

is_uppercase(c) == c \in UpperChars
is_lowercase(c) == c \in LowerChars
is_ascii_digit(c) == c \in DigitChars
is_special(c) == c \in SpecialChars

(* the errors vector validate_password builds, in push order *)
PasswordErrorsFirstOnly(password) ==
    IF ~(\E i \in 1..Len(password) : is_uppercase(password[i])) THEN <<"uppercase letter required">>
    ELSE IF ~(\E i \in 1..Len(password) : is_lowercase(password[i])) THEN <<"lowercase letter required">>
    ELSE IF ~(\E i \in 1..Len(password) : is_ascii_digit(password[i])) THEN <<"digit required">>
    ELSE IF ~(\E i \in 1..Len(password) : is_special(password[i])) THEN <<"special character required">>
    ELSE <<>>

PasswordErrors(password) ==
    (IF ~(\E i \in 1..Len(password) : is_uppercase(password[i]))
        THEN <<"uppercase letter required">> ELSE <<>>)
    \o (IF ~(\E i \in 1..Len(password) : is_lowercase(password[i]))
        THEN <<"lowercase letter required">> ELSE <<>>)
    \o (IF ~(\E i \in 1..Len(password) : is_ascii_digit(password[i]))
        THEN <<"digit required">> ELSE <<>>)
    \o (IF ~(\E i \in 1..Len(password) : is_special(password[i]))
        THEN <<"special character required">> ELSE <<>>)

(* Result<(), ValidationError>: the error carries a code and a message *)
validate_password(password) ==
    LET errors == PasswordErrors(password) IN
    IF Len(errors) # 0
    THEN Err([code |-> "password_requirements",
              message |-> Some(<<"Password requirements not met: ">>
                               \o Join(errors, ", "))])
    ELSE Ok(NoVal)

(* #[validate(email)]: one "@" with a non-empty local part and domain and  *)
(* no blank. The error it raises carries no message.                       *)
ValidateEmail(email) ==
    IF /\ Len(email) >= 3
       /\ Cardinality({i \in 1..Len(email) : email[i] = "@"}) = 1
       /\ email[1] # "@"
       /\ email[Len(email)] # "@"
       /\ \A i \in 1..Len(email) : email[i] # " "
    THEN <<>>
    ELSE <<[code |-> "email", message |-> None]>>

(* #[validate(length(min = 8, max = 64))]: counts characters, no message *)
ValidateLength(password) ==
    IF Len(password) >= PasswordMin /\ Len(password) <= PasswordMax
    THEN <<>>
    ELSE <<[code |-> "length", message |-> None]>>

ValidateCustom(password) ==
    LET r == validate_password(password) IN
    IF r.ok THEN <<>> ELSE <<r.err>>

(* ValidationErrors of a request is a record: field -> its errors *)

(* impl Validate for CreateUser / SignUpRequest *)
ValidateCreateUser(data) ==
    [email |-> ValidateEmail(data.email),
     password |-> ValidateLength(data.password) \o ValidateCustom(data.password)]

(* impl Validate for SignInRequest: the email only *)
ValidateSignInRequest(credentials) ==
    [email |-> ValidateEmail(credentials.email), password |-> <<>>]

(* impl From<ValidationErrors> for UsersServiceError: one "field: message" *)
(* entry per error that carries a message, joined by ";"                   *)
RECURSIVE FieldEntries(_, _)
FieldEntries(field, errs) ==
    IF Len(errs) = 0 THEN <<>>
    ELSE (IF IsSome(errs[1].message)
            THEN << <<field, ": ">> \o Unwrap(errs[1].message) >>
            ELSE <<>>)
         \o FieldEntries(field, Tail(errs))

FromValidationErrors(value) ==
    WrongCredentials(JoinSeqs(FieldEntries("email", value.email)
                              \o FieldEntries("password", value.password), ";"))

----------------------------------------------------------------------------
(* Password hashing, storage/users_storage.rs:102-129 *)

Salts == {<<"salt", n>> : n \in 1..NumSalts}

(* the Argon2id digest of a password under a salt.  The digest function is *)
(* the argon2 crate's, not this repository's: it is taken to be injective  *)
(* in password and salt, which is an assumption and not a checked fact.    *)
Argon2(password, salt) == <<salt>> \o password

(* the PHC string: algorithm and parameters, salt, digest *)
hash_password(password, salt) ==
    <<"$argon2id$v=19$m=19456,t=2,p=1$", salt, "$">> \o Argon2(password, salt)

(* PasswordHash::new: Some([salt, hash]) for a PHC string, None otherwise *)
PasswordHashNew(s) ==
    IF Len(s) >= 3 /\ s[1] = "$argon2id$v=19$m=19456,t=2,p=1$" /\ s[3] = "$"
    THEN Some([salt |-> s[2], hash |-> SubSeq(s, 4, Len(s))])
    ELSE None

verify_passwordMismatch(password_hash, password) ==
    LET parsed == PasswordHashNew(password_hash) IN
    IF ~IsSome(parsed) THEN Ok(FALSE)
    ELSE Ok(Argon2(password, Unwrap(parsed).salt) = Unwrap(parsed).hash)

(* Result<bool>: Err for a string that does not parse *)
verify_password(password_hash, password) ==
    LET parsed == PasswordHashNew(password_hash) IN
    IF ~IsSome(parsed) THEN Err(<<"invalid password hash">>)
    ELSE Ok(Argon2(password, Unwrap(parsed).salt) = Unwrap(parsed).hash)

----------------------------------------------------------------------------
(* The users table and its queries (queries/users/*.sql, the migration)   *)

(* the User struct: a row without its password column *)
UserOf(row) ==
    [id |-> row.id, username |-> row.username, email |-> row.email,
     first_name |-> row.first_name, last_name |-> row.last_name,
     bio |-> row.bio, created_at |-> row.created_at]

(* the table's unique constraints on email and username *)
UniqueOk(tbl, row) ==
    \A r \in tbl : r.id # row.id => r.email # row.email /\ r.username # row.username

(* create.sql: INSERT ... RETURNING the row; [res, tbl] *)
SqlCreate(tbl, username, email, password_hash, first_name, last_name, bio, id, ts) ==
    LET row == [id |-> id, username |-> username, email |-> email,
                password |-> password_hash, first_name |-> first_name,
                last_name |-> last_name, bio |-> bio, created_at |-> ts]
    IN IF UniqueOk(tbl, row)
       THEN [res |-> Ok(UserOf(row)), tbl |-> tbl \cup {row}]
       ELSE [res |-> Err(UniqueViolation), tbl |-> tbl]

(* fetch_optional of a SELECT: the row found, if any *)
FetchOptional(rows) ==
    IF rows = {} THEN None ELSE Some(CHOOSE r \in rows : TRUE)

(* get_by_email.sql: WHERE email = $1 *)
SqlGetByEmail(tbl, email) ==
    LET f == FetchOptional({r \in tbl : r.email = email}) IN
    IF IsSome(f) THEN Some(UserOf(Unwrap(f))) ELSE None

(* get_by_id.sql: WHERE id = $1 *)
SqlGetById(tbl, id) ==
    LET f == FetchOptional({r \in tbl : r.id = id}) IN
    IF IsSome(f) THEN Some(UserOf(Unwrap(f))) ELSE None

(* SELECT password FROM users WHERE email = $1 *)
SqlSelectPassword(tbl, email) ==
    LET f == FetchOptional({r \in tbl : r.email = email}) IN
    IF IsSome(f) THEN Some(Unwrap(f).password) ELSE None

Coalesce(opt, old) == IF IsSome(opt) THEN Unwrap(opt) ELSE old

(* update.sql: UPDATE ... WHERE id = $1 RETURNING the row; a parameter    *)
(* that is NULL leaves its column as it is; [res, tbl]                     *)
SqlUpdate(tbl, id, username, email, password, first_name, last_name, bio) ==
    LET f == FetchOptional({r \in tbl : r.id = id}) IN
    IF ~IsSome(f) THEN [res |-> Ok(None), tbl |-> tbl]
    ELSE LET old == Unwrap(f)
             new == [id |-> old.id,
                     username |-> Coalesce(username, old.username),
                     email |-> Coalesce(email, old.email),
                     password |-> Coalesce(password, old.password),
                     first_name |-> IF IsSome(first_name) THEN first_name ELSE old.first_name,
                     last_name |-> IF IsSome(last_name) THEN last_name ELSE old.last_name,
                     bio |-> IF IsSome(bio) THEN bio ELSE old.bio,
                     created_at |-> old.created_at]
         IN IF UniqueOk(tbl, new)
            THEN [res |-> Ok(Some(UserOf(new))), tbl |-> (tbl \ {old}) \cup {new}]
            ELSE [res |-> Err(UniqueViolation), tbl |-> tbl]

(* delete.sql: DELETE ... WHERE id = $1 RETURNING id; [res, tbl] *)
SqlDelete(tbl, id) ==
    LET rows == {r \in tbl : r.id = id} IN
    IF rows = {} THEN [res |-> Ok(None), tbl |-> tbl]
    ELSE [res |-> Ok(Some(id)), tbl |-> tbl \ rows]

----------------------------------------------------------------------------
(* UsersStorage, storage/users_storage.rs:10-100 *)

(* the email bound to create.sql *)
CreateEmailParamRaw(data) == data.email
CreateEmailParam(data) == to_lowercase(data.email)

(* create: hash the password, insert; [res, tbl] *)
UsersStorage_create(tbl, data, salt, id, ts) ==
    SqlCreate(tbl, data.username, CreateEmailParam(data),
              hash_password(data.password, salt),
              data.first_name, data.last_name, data.bio, id, ts)

(* the email bound to the password query of verify_user *)
VerifyEmailParamRaw(email) == email
VerifyEmailParam(email) == to_lowercase(email)

(* verify_user: Result<bool>; no such user and an unparsable hash are both *)
(* the WorkerCrashed error                                                 *)
UsersStorage_verify_user(tbl, email, password) ==
    LET password_hash == SqlSelectPassword(tbl, VerifyEmailParam(email))
        v == IF IsSome(password_hash)
             THEN verify_password(Unwrap(password_hash), password)
             ELSE Err(<<>>)
    IN IF IsSome(password_hash) /\ v.ok THEN Ok(v.val) ELSE Err(WorkerCrashed)

(* the email bound to get_by_email.sql *)
GetByEmailParamRaw(email) == email
GetByEmailParam(email) == to_lowercase(email)

UsersStorage_get_by_email(tbl, email) ==
    Ok(SqlGetByEmail(tbl, GetByEmailParam(email)))

UsersStorage_get_by_id(tbl, id) == Ok(SqlGetById(tbl, id))

(* the email and the password bound to update.sql *)
UpdateEmailParamRaw(data) == data.email
UpdateEmailParam(data) ==
    IF IsSome(data.email) THEN Some(to_lowercase(Unwrap(data.email))) ELSE None

UpdatePasswordParam(data) == data.password

UsersStorage_updateSwapped(tbl, id, data) ==
    SqlUpdate(tbl, id, data.username, UpdateEmailParam(data),
              UpdatePasswordParam(data),
              data.bio, data.last_name, data.first_name)

(* update: Result<Option<User>>; [res, tbl] *)
UsersStorage_update(tbl, id, data) ==
    SqlUpdate(tbl, id, data.username, UpdateEmailParam(data),
              UpdatePasswordParam(data),
              data.first_name, data.last_name, data.bio)

(* delete: Result<Option<Uuid>>; [res, tbl] *)
UsersStorage_delete(tbl, id) == SqlDelete(tbl, id)

----------------------------------------------------------------------------
(* UsersService, services/users_service.rs:79-280 *)

(* Uuid::parse_str and Uuid::to_string on the model's id strings *)
IdString(id) == <<"uuid", id>>
ParseUuid(s) ==
    IF Len(s) = 2 /\ s[1] = "uuid" THEN Ok(s[2]) ELSE Err(<<"invalid uuid">>)

IsEmptyErrors(v) == Len(v.email) = 0 /\ Len(v.password) = 0

generate_jwt_tokenNoLifetime(user, t) ==
    Ok([sub |-> IdString(user.id), email |-> user.email, exp |-> t])

(* generate_jwt_token: the claims the token is signed over *)
generate_jwt_token(user, t) ==
    Ok([sub |-> IdString(user.id), email |-> user.email, exp |-> t + SevenDays])

(* sign_in: Result<SignInResponse, UsersServiceError> *)
SignInGenericError == WrongCredentials(<<"Invalid email or password">>)

(* sign_in up to the answer of get_by_email, on the table of that moment:  *)
(* it has answered (done, res), or it goes on with the user it found       *)
sign_in_get_by_email(tbl, credentials) ==
    LET verrs == ValidateSignInRequest(credentials)
        found == UsersStorage_get_by_email(tbl, credentials.email)
    IN IF ~IsEmptyErrors(verrs)
       THEN [done |-> TRUE, res |-> Err(FromValidationErrors(verrs))]
       ELSE IF ~found.ok
       THEN [done |-> TRUE, res |-> Err(DatabaseError(found.err))]
       ELSE IF ~IsSome(found.val)
       THEN [done |-> TRUE, res |-> Err(SignInGenericError)]
       ELSE [done |-> FALSE, user |-> Unwrap(found.val)]

(* sign_in from verify_user on, on the table of that moment *)
sign_in_verify_user(tbl, credentials, user, t) ==
    LET is_valid == UsersStorage_verify_user(tbl, credentials.email,
                                             credentials.password)
        token == generate_jwt_token(user, t)
    IN IF ~is_valid.ok THEN Err(VerificationError(is_valid.err))
       ELSE IF ~is_valid.val THEN Err(SignInGenericError)
       ELSE IF ~token.ok THEN token
       ELSE Ok([user |-> user, token |-> token.val])

(* sign_in with no other request between its two queries *)
UsersService_sign_in(tbl, credentials, t) ==
    LET a == sign_in_get_by_email(tbl, credentials)
    IN IF a.done THEN a.res ELSE sign_in_verify_user(tbl, credentials, a.user, t)

(* whether sign_up takes the email for registered: if let Ok(Some(_)) *)
SignUpEmailTakenSkipped(found) == FALSE

SignUpEmailTaken(found) == found.ok /\ IsSome(found.val)

(* sqlx error of a query that could not be run *)
PoolTimedOut == <<"PoolTimedOut">>

(* sign_up up to the answer of get_by_email, on the table of that moment;  *)
(* the query runs (db_ok) or fails                                         *)
sign_up_get_by_email(tbl, user_data, db_ok) ==
    LET verrs == ValidateCreateUser(user_data)
        found == IF db_ok THEN UsersStorage_get_by_email(tbl, user_data.email)
                 ELSE Err(PoolTimedOut)
    IN IF ~IsEmptyErrors(verrs) THEN [done |-> TRUE, res |-> Err(FromValidationErrors(verrs))]
       ELSE IF SignUpEmailTaken(found)
       THEN [done |-> TRUE,
             res |-> Err(WrongCredentials(<<"Email already exists">>))]
       ELSE [done |-> FALSE, found |-> found]

(* sign_up from storage.create on, on the table of that moment: [res, tbl] *)
sign_up_create(tbl, user_data, salt, id, t) ==
    LET created == UsersStorage_create(tbl, user_data, salt, id, t)
        token == generate_jwt_token(created.res.val, t)
    IN IF ~created.res.ok
       THEN [res |-> Err(DatabaseError(created.res.err)), tbl |-> created.tbl]
       ELSE IF ~token.ok THEN [res |-> token, tbl |-> created.tbl]
       ELSE [res |-> Ok([user |-> created.res.val, token |-> token.val]),
             tbl |-> created.tbl]

(* create: [res, tbl] *)
UsersService_create(tbl, data, salt, id, t) ==
    LET verrs == ValidateCreateUser(data)
        created == UsersStorage_create(tbl, data, salt, id, t)
    IN IF ~IsEmptyErrors(verrs)
       THEN [res |-> Err(FromValidationErrors(verrs)), tbl |-> tbl]
       ELSE IF ~created.res.ok
       THEN [res |-> Err(DatabaseError(created.res.err)), tbl |-> created.tbl]
       ELSE created

(* get_by_id: Result<User, UsersServiceError> *)
UsersService_get_by_id(tbl, id) ==
    LET parsed == ParseUuid(id) IN
    IF ~parsed.ok THEN Err(WrongCredentials(<<"Wrong id format">>))
    ELSE LET existing == UsersStorage_get_by_id(tbl, parsed.val) IN
         IF ~existing.ok THEN Err(DatabaseError(existing.err))
         ELSE IF ~IsSome(existing.val) THEN Err(NotFound)
         ELSE Ok(Unwrap(existing.val))

(* the password check of update: Ok, or the error update returns *)
UpdatePasswordCheck(tbl, existing_user, data, old_password) ==
    IF ~IsSome(data.password) THEN Ok(NoVal)
    ELSE IF ~IsSome(old_password)
    THEN Err(WrongCredentials(<<"To change password please provide old password">>))
    ELSE LET verified == UsersStorage_verify_user(tbl, existing_user.email,
                                                  Unwrap(old_password))
         IN IF ~verified.ok THEN Err(VerificationError(verified.err))
            ELSE IF ~verified.val THEN Err(WrongCredentials(<<"Wrong old password">>))
            ELSE Ok(NoVal)

(* update from storage.update on, on the table of that moment: [res, tbl] *)
update_store(tbl, existing_user, data) ==
    LET upd == UsersStorage_update(tbl, existing_user.id, data)
    IN IF ~upd.res.ok
       THEN [res |-> Err(DatabaseError(upd.res.err)), tbl |-> upd.tbl]
       ELSE IF ~IsSome(upd.res.val) THEN [res |-> Err(NotFound), tbl |-> upd.tbl]
       ELSE [res |-> Ok(Unwrap(upd.res.val)), tbl |-> upd.tbl]

UsersService_deleteLenient(tbl, id) ==
    LET parsed == ParseUuid(id) IN
    IF ~parsed.ok THEN [res |-> Err(NotFound), tbl |-> tbl]
    ELSE LET del == UsersStorage_delete(tbl, parsed.val) IN
         IF ~del.res.ok THEN [res |-> Err(DatabaseError(del.res.err)), tbl |-> del.tbl]
         ELSE IF ~IsSome(del.res.val) THEN [res |-> Err(NotFound), tbl |-> del.tbl]
         ELSE [res |-> Ok(Unwrap(del.res.val)), tbl |-> del.tbl]

(* delete: [res, tbl] *)
UsersService_delete(tbl, id) ==
    LET parsed == ParseUuid(id) IN
    IF ~parsed.ok
    THEN [res |-> Err(WrongCredentials(<<"Wrong id format">>)), tbl |-> tbl]
    ELSE LET del == UsersStorage_delete(tbl, parsed.val) IN
         IF ~del.res.ok THEN [res |-> Err(DatabaseError(del.res.err)), tbl |-> del.tbl]
         ELSE IF ~IsSome(del.res.val) THEN [res |-> Err(NotFound), tbl |-> del.tbl]
         ELSE [res |-> Ok(Unwrap(del.res.val)), tbl |-> del.tbl]

----------------------------------------------------------------------------
(* Pagination: 32-bit and 64-bit integers                                  *)
(*                                                                         *)
(* page and per_page are u32 values; the model holds them as naturals.     *)
(* A value wider than the checker's integers (a product of two u32, an     *)
(* i64) is the little-endian sequence of its base-256 digits.              *)

Digit == 256
U32Digits == 4
I64Digits == 8

(* the n lowest base-256 digits of a natural below 2^31 *)
Digits(v, n) ==
    [i \in 1..n |-> IF i <= U32Digits THEN (v \div (Digit ^ (i - 1))) % Digit ELSE 0]

(* the product of two u32 in full: column sums, then carries *)
Column(a, b, k) ==
    LET Term(i) == IF (k + 1 - i) \in 1..U32Digits THEN a[i] * b[k + 1 - i] ELSE 0
    IN Term(1) + Term(2) + Term(3) + Term(4)

RECURSIVE Carry(_, _, _, _)
Carry(a, b, k, carry) ==
    IF k > I64Digits THEN <<>>
    ELSE LET t == Column(a, b, k) + carry
         IN <<t % Digit>> \o Carry(a, b, k + 1, t \div Digit)

FullProduct(x, y) == Carry(Digits(x, U32Digits), Digits(y, U32Digits), 1, 0)

(* u32 * u32 overflows when the product needs more than 32 bits *)
Overflows(product) == \E i \in (U32Digits + 1)..I64Digits : product[i] # 0

(* the 32 bits a wrapping multiplication keeps *)
Wrapped(product) == SubSeq(product, 1, U32Digits)

(* u32 as i64: zero-extended *)
AsI64(u) == [i \in 1..I64Digits |-> IF i <= Len(u) THEN u[i] ELSE 0]

I64(v) == AsI64(Digits(v, U32Digits))

(* min(value of digits, cap), for a cap the checker's integers hold *)
RECURSIVE SaturateFrom(_, _, _, _)
SaturateFrom(digits, i, acc, cap) ==
    IF i = 0 THEN acc
    ELSE LET v == acc * Digit + digits[i]
         IN SaturateFrom(digits, i - 1, IF v > cap THEN cap ELSE v, cap)

Saturate(digits, cap) == SaturateFrom(digits, Len(digits), 0, cap)

(* a panic of the handler's task *)
Panicked(m) == [ok |-> FALSE, val |-> NoVal, err |-> [kind |-> "panic", msg |-> m]]

----------------------------------------------------------------------------
(* Pagination: list_count.sql and list.sql *)

Contains(s, term) ==
    \E i \in 0..(Len(s) - Len(term)) : SubSeq(s, i + 1, i + Len(term)) = term

SqlMatchesUsernameOnly(tbl, search) ==
    IF ~IsSome(search) THEN tbl
    ELSE {r \in tbl :
            Contains(to_lowercase(r.username), to_lowercase(Unwrap(search)))}

(* the rows a search term selects: all of them without a term *)
SqlMatches(tbl, search) ==
    IF ~IsSome(search) THEN tbl
    ELSE {r \in tbl :
            \/ Contains(to_lowercase(r.username), to_lowercase(Unwrap(search)))
            \/ Contains(to_lowercase(r.email), to_lowercase(Unwrap(search)))}

SqlListCount(tbl, search) == Cardinality(SqlMatches(tbl, search))

(* ORDER BY created_at DESC *)
RECURSIVE OrderNewestFirst(_)
OrderNewestFirst(rows) ==
    IF rows = {} THEN <<>>
    ELSE LET newest == CHOOSE r \in rows : \A q \in rows : q.created_at <= r.created_at
         IN <<newest>> \o OrderNewestFirst(rows \ {newest})

(* LIMIT limit OFFSET offset over the ordered matches *)
SqlList(tbl, search, limit, offset) ==
    LET ordered == OrderNewestFirst(SqlMatches(tbl, search))
        n == Len(ordered)
        skip == Saturate(offset, n)
        take == Saturate(limit, n - skip)
    IN [i \in 1..take |-> UserOf(ordered[skip + i])]

(* UserSearch::default *)
DefaultLimit == 20
DefaultOffset == 0

(* data.offset.unwrap_or(0) *)
ListUsersOffsetIgnored(data) == I64(DefaultOffset)

ListUsersOffset(data) ==
    IF IsSome(data.offset) THEN Unwrap(data.offset) ELSE I64(DefaultOffset)

(* list_users from list.sql on, on the table of that moment, with the      *)
(* total_count list_count.sql answered before                              *)
list_users_page(tbl, data, total_count) ==
    LET limit == IF IsSome(data.limit) THEN Unwrap(data.limit) ELSE I64(DefaultLimit)
        offset == ListUsersOffset(data)
        users_ == SqlList(tbl, data.search, limit, offset)
    IN Ok([users |-> users_, total_count |-> total_count,
           limit |-> limit, offset |-> offset])

(* list_users with no other request between its two queries *)
UsersStorage_list_users(tbl, data) ==
    list_users_page(tbl, data, SqlListCount(tbl, data.search))

(* list.  The offset is (page - 1) * per_page in u32: the multiplication    *)
(* panics in a build with overflow checks and wraps in a build without.    *)
PageIsZeroNever(page) == FALSE

PageIsZero(page) == page = 0

(* list up to its call of storage: the answer, or the filter it asks with *)
list_filter(page, per_page, search_query, overflow_checks) ==
    IF PageIsZero(page)
    THEN [done |-> TRUE,
          res |-> Err(WrongCredentials(<<"Page must be greater than zero">>))]
    ELSE LET product == FullProduct(page - 1, per_page) IN
         IF overflow_checks /\ Overflows(product)
         THEN [done |-> TRUE,
               res |-> Panicked(<<"attempt to multiply with overflow">>)]
         ELSE [done |-> FALSE,
               filter |-> [search |-> search_query,
                           limit |-> Some(I64(per_page)),
                           offset |-> Some(AsI64(Wrapped(product)))]]

(* list from the answer of list_users on *)
list_result(result) ==
    IF ~result.ok THEN Err(DatabaseError(result.err))
    ELSE IF Len(result.val.users) = 0 THEN Err(NotFound)
    ELSE result

----------------------------------------------------------------------------
(* The JSON surface: a handler's Result as an HTTP response *)

StatusOk == 200
StatusBadRequest == 400
StatusNotFound == 404
StatusInternalServerError == 500

EmptyBody == <<>>

into_responseWithReason(e) ==
    IF e.kind = "NotFound" THEN [status |-> StatusNotFound, body |-> EmptyBody]
    ELSE IF e.kind = "WrongCredentials"
    THEN [status |-> StatusBadRequest, body |-> e.msg]
    ELSE [status |-> StatusInternalServerError, body |-> e.msg]

(* impl IntoResponse for UsersServiceError *)
into_response(e) ==
    IF e.kind = "NotFound" THEN [status |-> StatusNotFound, body |-> EmptyBody]
    ELSE IF e.kind = "WrongCredentials"
    THEN [status |-> StatusBadRequest, body |-> e.msg]
    ELSE [status |-> StatusInternalServerError, body |-> EmptyBody]

(* Result<Json<T>, UsersServiceError> as a response; a panic of the        *)
(* handler never reaches into_response                                     *)
JsonResponse(res) ==
    IF res.ok THEN [status |-> StatusOk, body |-> res.val]
    ELSE IF res.err.kind = "panic"
    THEN [status |-> StatusInternalServerError, body |-> EmptyBody]
    ELSE into_response(res.err)

----------------------------------------------------------------------------
(* The HTML surface: router/pages/login.rs, router/pages/signup.rs and     *)
(* sign_out of router/mod.rs.  A browser session holds the id of the user  *)
(* it is logged in with; a request carries the CSRF cookie and the form.   *)

Sessions == {"s1", "s2"}
CsrfTokens == {"t1", "t2"}

(* CsrfToken::verify: the form's token is the one issued with the cookie *)
CsrfToken_verifyAlways(cookie, form_token) == TRUE

CsrfToken_verify(cookie, form_token) == form_token = cookie

(* CsrfToken::authenticity_token: the token for the next form *)
authenticity_token(cookie) == cookie

(* impl Display for UsersServiceError: the Debug form *)
to_string(e) ==
    IF e.kind = "NotFound" THEN <<"NotFound">>
    ELSE <<e.kind, "(\"">> \o e.msg \o <<"\")">>

(* e.to_string().contains("already exists") *)
ContainsAlreadyExists(text) ==
    \E i \in 1..Len(text) : text[i] = "Email already exists"

(* Option<String> that is None or Some("") *)
NoFormError(o) == ~IsSome(o) \/ Len(Unwrap(o)) = 0

Redirect(to) == [kind |-> "redirect", to |-> to]
FormResponse(form) == [kind |-> "form", form |-> form]

(* what a form handler did: its response, the id it logged the session in  *)
(* with, the result of the service call it made                            *)
Handled(response, login, service) ==
    [response |-> response, login |-> login, service |-> service]

uuid_to_string(id) == IdString(id)

(* both form handlers call the service only with a verified token and no   *)
(* error field set                                                         *)
CallsService(cookie, form) ==
    /\ CsrfToken_verify(cookie, form.csrf_token)
    /\ NoFormError(form.email_error)
    /\ NoFormError(form.password_error)

(* POST /login; service is the result of sign_in, if the handler called it *)
login_form(cookie, form, service) ==
    IF ~CsrfToken_verify(cookie, form.csrf_token)
    THEN Handled(FormResponse([email |-> form.email,
                               email_error |-> Some(<<"Invalid CSRF token">>),
                               password |-> form.password,
                               password_error |-> None,
                               csrf_token |-> authenticity_token(cookie)]),
                 None, None)
    ELSE IF NoFormError(form.email_error) /\ NoFormError(form.password_error)
    THEN LET res == Unwrap(service)
         IN IF res.ok
            THEN Handled(Redirect("/"), Some(uuid_to_string(res.val.user.id)),
                         Some(res))
            ELSE IF res.err.kind = "WrongCredentials"
            THEN Handled(FormResponse([email |-> form.email,
                                       email_error |-> None,
                                       password |-> form.password,
                                       password_error |-> Some(res.err.msg),
                                       csrf_token |-> authenticity_token(cookie)]),
                         None, Some(res))
            ELSE Handled(FormResponse([email |-> form.email,
                                       email_error |-> None,
                                       password |-> form.password,
                                       password_error |-> Some(to_string(res.err)),
                                       csrf_token |-> authenticity_token(cookie)]),
                         None, Some(res))
    ELSE Handled(FormResponse([email |-> form.email,
                               email_error |-> form.email_error,
                               password |-> form.password,
                               password_error |-> form.password_error,
                               csrf_token |-> authenticity_token(cookie)]),
                 None, None)

(* the Russian text "the email is already registered", transliterated *)
EmailRegisteredText == <<"Pochta uzhe zaregistrirovana">>

(* the SignUpRequest signup_form builds from the form *)
SignUpRequestOf(form) ==
    [username |-> form.username, email |-> form.email,
     password |-> form.password, first_name |-> form.first_name,
     last_name |-> form.last_name, bio |-> form.bio]

(* POST /signup; service is the result of sign_up, if the handler called it *)
signup_form(cookie, form, service) ==
    IF ~CsrfToken_verify(cookie, form.csrf_token)
    THEN Handled(FormResponse([form EXCEPT !.username_error = Some(<<"wrong csrf">>)]),
                 None, None)
    ELSE IF NoFormError(form.email_error) /\ NoFormError(form.password_error)
    THEN LET csrt_token == authenticity_token(cookie)
             res == Unwrap(service)
         IN IF res.ok
            THEN Handled(Redirect("/"), Some(uuid_to_string(res.val.user.id)),
                         Some(res))
            ELSE IF ContainsAlreadyExists(to_string(res.err))
            THEN Handled(FormResponse(
                            [form EXCEPT
                               !.email_error = Some(EmailRegisteredText),
                               !.csrf_token = csrt_token]),
                         None, Some(res))
            ELSE Handled(FormResponse(
                            [form EXCEPT
                               !.username_error = Some(to_string(res.err)),
                               !.csrf_token = csrt_token]),
                         None, Some(res))
    ELSE Handled(FormResponse([form EXCEPT !.csrf_token = authenticity_token(cookie)]),
                 None, None)

----------------------------------------------------------------------------
(* Requests the clients send *)

UserAnn == <<"a", "n", "n">>
UserBo == <<"B", "o">>
Usernames == {UserAnn, UserBo}

EmailA == <<"a", "@", "b", ".", "c">>
EmailAUp == <<"A", "@", "B", ".", "c">>
EmailD == <<"d", "@", "b", ".", "c">>
EmailBad == <<"a", "b">>
Emails == {EmailA, EmailAUp, EmailD, EmailBad}

PwGood == <<"A", "a", "1", "!", "a", "a", "a", "a">>
PwGood2 == <<"B", "b", "2", "?", "b", "b", "b", "b">>
PwWeak == <<"w", "e", "a", "k">>
Passwords == {PwGood, PwWeak}

NoProfile == [first_name |-> None, last_name |-> None, bio |-> None]
FullProfile == [first_name |-> Some(<<"A", "n", "n">>),
                last_name |-> Some(<<"D", "o", "e">>),
                bio |-> Some(<<"o", "k">>)]

(* the profile a new account is created with *)
ProfileOf(u) == IF u = UserAnn THEN FullProfile ELSE NoProfile

CreateRequests ==
    {[username |-> u, email |-> e, password |-> p,
      first_name |-> ProfileOf(u).first_name, last_name |-> ProfileOf(u).last_name,
      bio |-> ProfileOf(u).bio] :
        u \in Usernames, e \in Emails, p \in Passwords}

SignInRequests == {[email |-> e, password |-> p] : e \in Emails, p \in {PwGood, PwGood2}}

(* updates of the account data, and updates of the profile alone *)
UpdateRequests ==
    {[username |-> u, email |-> e, password |-> p,
      first_name |-> None, last_name |-> None, bio |-> None] :
        u \in {None, Some(UserBo)},
        e \in {None, Some(EmailAUp)},
        p \in {None, Some(PwGood2), Some(PwWeak)}}
    \cup
    {[username |-> None, email |-> None, password |-> None,
      first_name |-> FullProfile.first_name, last_name |-> None,
      bio |-> FullProfile.bio]}

(* the old_password sent along: any of these with a new password *)
OldPasswords(data) ==
    IF IsSome(data.password) THEN {None, Some(PwGood), Some(PwGood2)} ELSE {None}

IdStrings == {IdString(i) : i \in 1..MaxIds} \cup {<<"junk">>}

(* list requests: small pages, and a page and a per_page whose product    *)
(* of (page - 1) and per_page is 2^32                                      *)
Pages == {0, 1, 2, 65537}
PerPages == {0, 1, 2, 65536}
SearchQueries == {None, Some(<<"b", "o">>), Some(<<"D">>)}

(* forms the browser posts; the error fields are those the live           *)
(* validation left in the form: none, or one that blocks the submission    *)
NoFormErrors == <<None, Some(<<>>)>>
BlockingFormErrors ==
    {<<Some(<<"Vvedite korrektnyj email">>), None>>,
     <<Some(<<>>), Some(<<"Vvedite korrektnyj email">>)>>}

LoginFormOf(e, p, errs, c) ==
    [email |-> e, email_error |-> errs[1], password |-> p,
     password_error |-> errs[2], csrf_token |-> c]

LoginForms ==
    {LoginFormOf(e, p, NoFormErrors, c) :
        e \in {EmailA, EmailD}, p \in {PwGood, PwGood2}, c \in CsrfTokens}
    \cup {LoginFormOf(EmailA, PwGood, errs, "t1") : errs \in BlockingFormErrors}

SignupFormOf(u, e, p, errs, c) ==
    [username |-> u, username_error |-> None, email |-> e,
     email_error |-> errs[1], password |-> p, confirm_password |-> p,
     password_error |-> errs[2], first_name |-> ProfileOf(u).first_name,
     last_name |-> ProfileOf(u).last_name, bio |-> ProfileOf(u).bio,
     csrf_token |-> c]

SignupForms ==
    {SignupFormOf(f[1], f[2], f[3], NoFormErrors, c) :
        f \in {<<UserBo, EmailA, PwGood>>, <<UserBo, EmailD, PwGood>>,
               <<UserAnn, EmailA, PwGood>>, <<UserBo, EmailA, PwWeak>>},
        c \in CsrfTokens}
    \cup {SignupFormOf(UserBo, EmailA, PwGood, errs, "t1") : errs \in BlockingFormErrors}
    \cup {[SignupFormOf(UserBo, EmailA, PwGood, NoFormErrors, c)
               EXCEPT !.confirm_password = PwGood2] : c \in CsrfTokens}

(* the CSRF cookie a browser session holds *)
CookieOf(s) == IF s = "s1" THEN "t1" ELSE "t2"

(* passwords handed to hash_password and verify_password *)
HashPasswords == {PwGood, PwGood2, PwWeak, <<"A">>, <<>>}

PwAlphabet == {"A", "a", "1", "!", " "}
PwInputs == UNION {[1..n -> PwAlphabet] : n \in 0..MaxPwLen}

----------------------------------------------------------------------------
(* The state machine *)

(* nothing hashed yet; no request in progress *)
NoHashing == [p |-> <<>>, q |-> <<>>, hashes |-> <<>>, verdicts |-> <<>>]
Clients == {"c1", "c2"}
Idle == [pc |-> "idle"]

NoRequest == [n |-> 0, op |-> "none", inp |-> NoVal, res |-> Ok(NoVal)]

Init ==
    /\ users = {}
    /\ nextId = 1
    /\ now = 0
    /\ last = NoRequest
    /\ pw = <<>>
    /\ verdict = None
    /\ session = [s \in Sessions |-> None]
    /\ hashing = NoHashing
    /\ inflight = [c \in Clients |-> Idle]

(* Each handler is an async fn: between two awaited queries of one request *)
(* the queries of other requests can run.  A step is one query with the    *)
(* code around it; inflight holds what a client's handler holds at an      *)
(* await.  The clock ticks when a request arrives.                         *)

(* a request of client c arrives *)
Arrives(c) ==
    /\ inflight[c] = Idle
    /\ now < MaxSteps
    /\ now' = now + 1

(* the handler of client c awaits its next query, holding locals *)
Awaits(c, locals) ==
    /\ inflight' = [inflight EXCEPT ![c] = locals]
    /\ last' = last

(* the handler of client c returns res to the JSON client *)
Respond(c, op, inp, res) ==
    /\ inflight' = [inflight EXCEPT ![c] = Idle]
    /\ last' = [n |-> last.n + 1, op |-> op, inp |-> inp, res |-> res,
                http |-> JsonResponse(res)]

(* POST /signin up to the answer of get_by_email *)
SignInLookup(c) ==
    \E credentials \in SignInRequests :
        /\ Arrives(c)
        /\ LET a == sign_in_get_by_email(users, credentials)
           IN IF a.done THEN Respond(c, "sign_in", credentials, a.res)
              ELSE Awaits(c, [pc |-> "sign_in_verify", credentials |-> credentials,
                              user |-> a.user])
        /\ UNCHANGED <<users, nextId, pw, verdict, session, hashing>>

(* POST /signin from verify_user to the response *)
SignInVerify(c) ==
    /\ inflight[c].pc = "sign_in_verify" /\ now' = now
    /\ Respond(c, "sign_in", inflight[c].credentials,
               sign_in_verify_user(users, inflight[c].credentials,
                                   inflight[c].user, now))
    /\ UNCHANGED <<users, nextId, pw, verdict, session, hashing>>

(* POST /signup up to the answer of get_by_email; the query runs or fails  *)
(* as outcomes allows                                                      *)
SignUpLookupStep(c, outcomes) ==
    \E user_data \in CreateRequests, db_ok \in outcomes :
        /\ Arrives(c)
        /\ LET a == sign_up_get_by_email(users, user_data, db_ok)
           IN IF a.done THEN Respond(c, "sign_up", user_data, a.res)
              ELSE Awaits(c, [pc |-> "sign_up_create", user_data |-> user_data,
                              found |-> a.found])
        /\ UNCHANGED <<users, nextId, pw, verdict, session, hashing>>

(* the lookup of a working store *)
SignUpLookup(c) == SignUpLookupStep(c, {TRUE})

(* the lookup of a store whose queries can fail *)
SignUpLookupOrFail(c) == SignUpLookupStep(c, BOOLEAN)

(* POST /signup from storage.create to the response *)
SignUpCreate(c) ==
    \E salt \in Salts :
        /\ inflight[c].pc = "sign_up_create" /\ now' = now
        /\ nextId <= MaxIds
        /\ LET r == sign_up_create(users, inflight[c].user_data, salt, nextId, now)
           IN /\ users' = r.tbl
              /\ nextId' = IF r.tbl # users THEN nextId + 1 ELSE nextId
              /\ Respond(c, "sign_up", inflight[c].user_data, r.res)
        /\ UNCHANGED <<pw, verdict, session, hashing>>

(* POST /users: one query *)
Create ==
    \E data \in CreateRequests, salt \in Salts :
        /\ now < MaxSteps
        /\ now' = now + 1
        /\ nextId <= MaxIds
        /\ LET r == UsersService_create(users, data, salt, nextId, now) IN
            /\ users' = r.tbl
            /\ nextId' = IF r.tbl # users THEN nextId + 1 ELSE nextId
            /\ last' = [n |-> last.n + 1, op |-> "create", inp |-> data,
                        res |-> r.res, http |-> JsonResponse(r.res)]
        /\ UNCHANGED <<pw, verdict, session, hashing, inflight>>

(* PATCH /users/{id} up to the answer of get_by_id, and on to the first    *)
(* query after it                                                          *)
UpdateGetById(c) ==
    \E user_id \in IdStrings, data \in UpdateRequests :
      \E old_password \in OldPasswords(data) :
        /\ Arrives(c)
        /\ LET inp == [user_id |-> user_id, data |-> data,
                       old_password |-> old_password]
               existing_user == UsersService_get_by_id(users, user_id)
           IN IF ~existing_user.ok THEN Respond(c, "update", inp, existing_user)
              ELSE IF IsSome(data.password) /\ ~IsSome(old_password)
              THEN Respond(c, "update", inp,
                           UpdatePasswordCheck(users, existing_user.val, data,
                                               old_password))
              ELSE Awaits(c, [pc |-> IF IsSome(data.password) THEN "update_verify"
                                     ELSE "update_store",
                              inp |-> inp, existing_user |-> existing_user.val])
        /\ UNCHANGED <<users, nextId, pw, verdict, session, hashing>>

(* PATCH /users/{id} from verify_user of the old password on *)
UpdateVerify(c) ==
    /\ inflight[c].pc = "update_verify" /\ now' = now
    /\ LET inp == inflight[c].inp
           check == UpdatePasswordCheck(users, inflight[c].existing_user, inp.data,
                                        inp.old_password)
       IN IF ~check.ok THEN Respond(c, "update", inp, check)
          ELSE Awaits(c, [inflight[c] EXCEPT !.pc = "update_store"])
    /\ UNCHANGED <<users, nextId, pw, verdict, session, hashing>>

(* PATCH /users/{id} from storage.update to the response *)
UpdateStore(c) ==
    /\ inflight[c].pc = "update_store" /\ now' = now
    /\ LET r == update_store(users, inflight[c].existing_user, inflight[c].inp.data)
       IN /\ users' = r.tbl
          /\ Respond(c, "update", inflight[c].inp, r.res)
    /\ UNCHANGED <<nextId, pw, verdict, session, hashing>>

(* DELETE /users/{id}: one query *)
Delete ==
    \E id \in IdStrings :
        /\ now < MaxSteps
        /\ now' = now + 1
        /\ LET r == UsersService_delete(users, id) IN
            /\ users' = r.tbl
            /\ last' = [n |-> last.n + 1, op |-> "delete", inp |-> id,
                        res |-> r.res, http |-> JsonResponse(r.res)]
        /\ UNCHANGED <<nextId, pw, verdict, session, hashing, inflight>>

Next ==
    \/ Create
    \/ Delete
    \/ \E c \in Clients :
          \/ SignInLookup(c)
          \/ SignInVerify(c)
          \/ SignUpLookup(c)
          \/ SignUpCreate(c)
          \/ UpdateGetById(c)
          \/ UpdateVerify(c)
          \/ UpdateStore(c)

Spec == Init /\ [][Next]_vars

(* sign_up and delete with a store whose lookup can fail *)
NextFault ==
    \/ Delete
    \/ \E c \in Clients :
          \/ SignUpLookupOrFail(c)
          \/ SignUpCreate(c)

SpecFault == Init /\ [][NextFault]_vars

(* POST /users/list up to the answer of list_count.sql.  The build has    *)
(* overflow checks or not; the two builds differ where the product         *)
(* overflows.  The large pages are asked for without a search term.        *)
ListCount(c) ==
    \E page \in Pages, per_page \in PerPages :
      \E search_query \in IF page > 2 \/ per_page > 2 THEN {None} ELSE SearchQueries,
         overflow_checks \in IF page > 0 /\ Overflows(FullProduct(page - 1, per_page))
                              THEN BOOLEAN ELSE {TRUE} :
        /\ Arrives(c)
        /\ LET inp == [page |-> page, per_page |-> per_page,
                       search_query |-> search_query]
               a == list_filter(page, per_page, search_query, overflow_checks)
           IN IF a.done
              THEN /\ inflight' = inflight
                   /\ last' = [n |-> last.n + 1, op |-> "list", inp |-> inp,
                               res |-> a.res, query |-> None,
                               http |-> JsonResponse(a.res)]
              ELSE Awaits(c, [pc |-> "list_page", inp |-> inp, data |-> a.filter,
                              total_count |-> SqlListCount(users, a.filter.search)])
        /\ UNCHANGED <<users, nextId, pw, verdict, session, hashing>>

(* POST /users/list from list.sql to the response *)
ListPage(c) ==
    /\ inflight[c].pc = "list_page" /\ now' = now
    /\ LET res == list_result(list_users_page(users, inflight[c].data,
                                              inflight[c].total_count))
       IN /\ inflight' = [inflight EXCEPT ![c] = Idle]
          /\ last' = [n |-> last.n + 1, op |-> "list", inp |-> inflight[c].inp,
                      res |-> res, query |-> Some(inflight[c].data),
                      http |-> JsonResponse(res)]
    /\ UNCHANGED <<users, nextId, pw, verdict, session, hashing>>

(* accounts are created while lists are served *)
NextList ==
    \/ Create
    \/ \E c \in Clients :
          \/ ListCount(c)
          \/ ListPage(c)

SpecList == Init /\ [][NextList]_vars

(* AuthSession::login_user, AuthSession::logout_user on session s *)
login_user(sess, s, id) == [sess EXCEPT ![s] = Some(id)]

logout_userKeeps(sess, s) == sess

logout_user(sess, s) == [sess EXCEPT ![s] = None]

(* the form handler of client c returns: login_user if it logs in, and the *)
(* response                                                                *)
RespondForm(c, op, s, form, h) ==
    /\ inflight' = [inflight EXCEPT ![c] = Idle]
    /\ session' = IF IsSome(h.login) THEN login_user(session, s, Unwrap(h.login))
                  ELSE session
    /\ last' = [n |-> last.n + 1, op |-> op,
                inp |-> [session |-> s, cookie |-> CookieOf(s), form |-> form],
                service |-> h.service, response |-> h.response]

(* POST /login from a browser session, up to the answer of get_by_email *)
LoginFormLookup(c) ==
    \E s \in Sessions, form \in LoginForms :
        /\ Arrives(c)
        /\ LET cookie == CookieOf(s)
               a == sign_in_get_by_email(users, [email |-> form.email,
                                                  password |-> form.password])
           IN IF ~CallsService(cookie, form)
              THEN RespondForm(c, "login_form", s, form, login_form(cookie, form, None))
              ELSE IF a.done
              THEN RespondForm(c, "login_form", s, form,
                               login_form(cookie, form, Some(a.res)))
              ELSE /\ Awaits(c, [pc |-> "login_form_verify", s |-> s, form |-> form,
                                 user |-> a.user])
                   /\ session' = session
        /\ UNCHANGED <<users, nextId, pw, verdict, hashing>>

(* POST /login from verify_user to the response *)
LoginFormVerify(c) ==
    /\ inflight[c].pc = "login_form_verify" /\ now' = now
    /\ LET s == inflight[c].s
           form == inflight[c].form
           res == sign_in_verify_user(users, [email |-> form.email,
                                              password |-> form.password],
                                      inflight[c].user, now)
       IN RespondForm(c, "login_form", s, form,
                      login_form(CookieOf(s), form, Some(res)))
    /\ UNCHANGED <<users, nextId, pw, verdict, hashing>>

(* POST /signup from a browser session, up to the answer of get_by_email *)
SignupFormLookup(c) ==
    \E s \in Sessions, form \in SignupForms :
        /\ Arrives(c)
        /\ LET cookie == CookieOf(s)
               a == sign_up_get_by_email(users, SignUpRequestOf(form), TRUE)
           IN IF ~CallsService(cookie, form)
              THEN RespondForm(c, "signup_form", s, form,
                               signup_form(cookie, form, None))
              ELSE IF a.done
              THEN RespondForm(c, "signup_form", s, form,
                               signup_form(cookie, form, Some(a.res)))
              ELSE /\ Awaits(c, [pc |-> "signup_form_create", s |-> s, form |-> form,
                                 found |-> a.found])
                   /\ session' = session
        /\ UNCHANGED <<users, nextId, pw, verdict, hashing>>

(* POST /signup from storage.create to the response *)
SignupFormCreate(c) ==
    \E salt \in Salts :
        /\ inflight[c].pc = "signup_form_create" /\ now' = now
        /\ nextId <= MaxIds
        /\ LET s == inflight[c].s
               form == inflight[c].form
               r == sign_up_create(users, SignUpRequestOf(form), salt, nextId, now)
           IN /\ users' = r.tbl
              /\ nextId' = IF r.tbl # users THEN nextId + 1 ELSE nextId
              /\ RespondForm(c, "signup_form", s, form,
                             signup_form(CookieOf(s), form, Some(r.res)))
        /\ UNCHANGED <<pw, verdict, hashing>>

(* GET /signout: auth.logout_user() *)
SignOut ==
    \E s \in Sessions :
        /\ now < MaxSteps
        /\ now' = now + 1
        /\ session' = logout_user(session, s)
        /\ last' = [n |-> last.n + 1, op |-> "sign_out", inp |-> [session |-> s],
                    service |-> None, response |-> Redirect("/")]
        /\ UNCHANGED <<users, nextId, pw, verdict, hashing, inflight>>

(* the pages the router mounts; the users table they work on is the one    *)
(* UsersService::delete removes rows from                                 *)
NextWeb ==
    \/ SignOut
    \/ Delete
    \/ \E c \in Clients :
          \/ LoginFormLookup(c)
          \/ LoginFormVerify(c)
          \/ SignupFormLookup(c)
          \/ SignupFormCreate(c)

SpecWeb == Init /\ [][NextWeb]_vars

(* hash_password and verify_password on pairs of passwords *)
InitHash ==
    /\ users = {}
    /\ nextId = 1
    /\ now = 0
    /\ last = NoRequest
    /\ pw = <<>>
    /\ verdict = None
    /\ session = [s \in Sessions |-> None]
    /\ hashing \in {[p |-> p, q |-> q, hashes |-> <<>>, verdicts |-> <<>>] :
                        p \in HashPasswords, q \in HashPasswords}
    /\ inflight = [c \in Clients |-> Idle]

(* hash_password(p): SaltString::generate(&mut OsRng) draws any salt, one *)
(* it has drawn before included                                          *)
HashPassword ==
    \E salt \in Salts :
        /\ Len(hashing.hashes) < MaxHashes
        /\ hashing' = [hashing EXCEPT
                          !.hashes = Append(@, hash_password(hashing.p, salt))]
        /\ UNCHANGED <<users, nextId, now, last, pw, verdict, session, inflight>>

(* verify_password of the next unchecked hash against p and against q *)
VerifyPassword ==
    /\ Len(hashing.verdicts) < Len(hashing.hashes)
    /\ LET h == hashing.hashes[Len(hashing.verdicts) + 1] IN
        hashing' = [hashing EXCEPT
                       !.verdicts = Append(@, [p |-> verify_password(h, hashing.p),
                                               q |-> verify_password(h, hashing.q)])]
    /\ UNCHANGED <<users, nextId, now, last, pw, verdict, session, inflight>>

NextHash == HashPassword \/ VerifyPassword

SpecHash == InitHash /\ [][NextHash]_vars

(* validate_password on every password up to MaxPwLen characters *)
InitPw ==
    /\ users = {}
    /\ nextId = 1
    /\ now = 0
    /\ last = NoRequest
    /\ pw \in PwInputs
    /\ verdict = None
    /\ session = [s \in Sessions |-> None]
    /\ hashing = NoHashing
    /\ inflight = [c \in Clients |-> Idle]

ValidatePassword ==
    /\ verdict = None
    /\ verdict' = Some(validate_password(pw))
    /\ UNCHANGED <<users, nextId, now, last, pw, session, hashing, inflight>>

NextPw == ValidatePassword

SpecPw == InitPw /\ [][NextPw]_vars

----------------------------------------------------------------------------
(* Vocabulary of the properties *)

Range(f) == {f[i] : i \in DOMAIN f}

(* case variants of the request emails, for lookups *)
EmailVariants ==
    Emails \cup {<<"a", "@", "B", ".", "c">>, <<"D", "@", "b", ".", "c">>,
                 <<"A", "@", "b", ".", "c">>}

WellFormed(email) == Len(ValidateEmail(email)) = 0

(* the rows registered under the lowercase form of an email *)
RowsFor(tbl, email) == {r \in tbl : r.email = to_lowercase(email)}

(* p is the password the row's credential was last set from *)
IsPasswordOf(row, p) ==
    \/ row.password = p
    \/ \E salt \in Salts : row.password = hash_password(p, salt)

HasUpper(p) == \E i \in 1..Len(p) : p[i] \in UpperChars
HasLower(p) == \E i \in 1..Len(p) : p[i] \in LowerChars
HasDigit(p) == \E i \in 1..Len(p) : p[i] \in DigitChars
HasSpecial(p) == \E i \in 1..Len(p) : p[i] \in SpecialChars

MeetsPolicy(p) ==
    /\ Len(p) >= 8 /\ Len(p) <= 64
    /\ HasUpper(p) /\ HasLower(p) /\ HasDigit(p) /\ HasSpecial(p)

(* a step that serves a request of the kind op *)
Served(op) == last'.n # last.n /\ last'.op = op

(* what the handler of client c holds from its earlier queries is what     *)
(* the store answers now                                                   *)
AsRead(c) ==
    LET h == inflight[c] IN
    CASE h.pc = "sign_in_verify" ->
            UsersStorage_get_by_email(users, h.credentials.email) = Ok(Some(h.user))
      [] h.pc = "sign_up_create" ->
            UsersStorage_get_by_email(users, h.user_data.email) = h.found
      [] h.pc = "update_verify" ->
            UsersService_get_by_id(users, h.inp.user_id) = Ok(h.existing_user)
      [] h.pc = "update_store" ->
            /\ UsersService_get_by_id(users, h.inp.user_id) = Ok(h.existing_user)
            /\ IsSome(h.inp.data.password)
                  => UpdatePasswordCheck(users, h.existing_user, h.inp.data,
                                         h.inp.old_password).ok
      [] h.pc = "list_page" -> SqlListCount(users, h.data.search) = h.total_count
      [] OTHER -> TRUE

(* the request a step answers ran with no other request changing, between  *)
(* its queries, what it read: the case the contract of an operation is     *)
(* about.  A request answered at its first query is such a request.        *)
Undisturbed ==
    \A c \in Clients : (inflight[c] # Idle /\ inflight'[c] = Idle) => AsRead(c)

----------------------------------------------------------------------------
(* C1: sign_in with a well-formed email that is not registered, and        *)
(* sign_in with a registered email and a password that is not the user's,  *)
(* both return WrongCredentials("Invalid email or password").              *)
SameGenericError ==
    (/\ WellFormed(last.inp.email)
     /\ \/ RowsFor(users, last.inp.email) = {}
        \/ \E r \in RowsFor(users, last.inp.email) :
              ~IsPasswordOf(r, last.inp.password))
    => last.res = Err(SignInGenericError)

C1_SameGenericError ==
    [][(Served("sign_in") /\ Undisturbed) => SameGenericError']_vars

(* C2: after a successful update that sets a new password p, the stored    *)
(* credential is a hash of p: verify_user with the user's email and p      *)
(* returns true, sign_in with them succeeds, and the old password no       *)
(* longer verifies.                                                        *)
C2_UpdateHashesPassword ==
    (/\ last.op = "update"
     /\ last.res.ok
     /\ IsSome(last.inp.data.password))
    => LET p == Unwrap(last.inp.data.password)
           old == Unwrap(last.inp.old_password)
           email == last.res.val.email
       IN /\ \E r \in users, salt \in Salts :
                r.id = last.res.val.id /\ r.password = hash_password(p, salt)
          /\ UsersStorage_verify_user(users, email, p) = Ok(TRUE)
          /\ UsersService_sign_in(users, [email |-> email, password |-> p], now).ok
          /\ old # p => UsersStorage_verify_user(users, email, old) # Ok(TRUE)

(* the email of the request is registered before the step, compared in     *)
(* lowercase form                                                         *)
EmailRegistered(email) == \E r \in users : r.email = to_lowercase(email)

EmailExistsError == Err(WrongCredentials(<<"Email already exists">>))

(* sign_up persisted exactly one new user and returned it with a token *)
SignUpPersistedOne ==
    /\ last'.res.ok
    /\ users \subseteq users'
    /\ \E r \in users' \ users :
          /\ users' = users \cup {r}
          /\ last'.res.val.user = UserOf(r)
          /\ r.username = last'.inp.username
          /\ r.email = to_lowercase(last'.inp.email)
    /\ "token" \in DOMAIN last'.res.val

SignUpAccepts ==
    (/\ Len(ValidateEmail(last'.inp.email)) = 0
     /\ MeetsPolicy(last'.inp.password)
     /\ ~EmailRegistered(last'.inp.email)
     /\ \A r \in users : r.username # last'.inp.username)
    => SignUpPersistedOne

(* C3 as stated: sign_up with an email whose lowercase form is the email   *)
(* of an existing user is rejected with "Email already exists" and leaves  *)
(* the stored users unchanged; otherwise, with valid input and a free      *)
(* email and username, it persists exactly one new user and returns it     *)
(* with a token.                                                           *)
C3_Original ==
    [][(Served("sign_up") /\ Undisturbed) =>
        /\ EmailRegistered(last'.inp.email)
              => last'.res = EmailExistsError /\ users' = users
        /\ SignUpAccepts]_vars

(* C3 amended: a sign_up whose input passes validation and whose email,    *)
(* in lowercase form, is the email of an existing user is rejected with    *)
(* "Email already exists"; one whose input fails validation is rejected    *)
(* with the validation error instead; in both cases the stored users are   *)
(* unchanged; with valid input and a free email and username it persists   *)
(* exactly one new user and returns it with a token.                       *)
C3_SignUpDuplicateEmail ==
    [][(Served("sign_up") /\ Undisturbed) =>
        /\ EmailRegistered(last'.inp.email)
              => /\ users' = users
                 /\ ~last'.res.ok
                 /\ (Len(ValidateEmail(last'.inp.email)) = 0
                     /\ MeetsPolicy(last'.inp.password))
                        => last'.res = EmailExistsError
                 /\ ~(Len(ValidateEmail(last'.inp.email)) = 0
                      /\ MeetsPolicy(last'.inp.password))
                        => /\ last'.res =
                                Err(FromValidationErrors(ValidateCreateUser(last'.inp)))
                           /\ last'.res # EmailExistsError
        /\ SignUpAccepts]_vars

C3_Witness ==
    /\ last.op = "sign_up"
    /\ last.res = EmailExistsError
    /\ last.inp.email # to_lowercase(last.inp.email)
    /\ \E r \in users : r.email = to_lowercase(last.inp.email)

(* the stored user an update request addresses, before the step *)
UpdateTarget == {r \in users : IdString(r.id) = last'.inp.user_id}

(* C4: an update that sets a new password succeeds only if old_password    *)
(* is supplied and verifies against the stored credential; without         *)
(* old_password it returns "To change password please provide old          *)
(* password", with one that does not verify "Wrong old password", and in   *)
(* both cases the stored users are unchanged.                              *)
C4_PasswordChangeNeedsOld ==
    [][(Served("update") /\ Undisturbed /\ IsSome(last'.inp.data.password)) =>
        \A r \in UpdateTarget :
            LET old == last'.inp.old_password IN
            /\ last'.res.ok
                  => /\ IsSome(old)
                     /\ verify_password(r.password, Unwrap(old)) = Ok(TRUE)
            /\ ~IsSome(old)
                  => /\ last'.res = Err(WrongCredentials(
                            <<"To change password please provide old password">>))
                     /\ users' = users
            /\ (IsSome(old) /\ verify_password(r.password, Unwrap(old)) # Ok(TRUE))
                  => /\ last'.res = Err(WrongCredentials(<<"Wrong old password">>))
                     /\ users' = users]_vars

(* C5: sign_in succeeds exactly when the email is well-formed, a user is   *)
(* stored under its lowercase form and the password verifies against that  *)
(* user's stored hash; the user returned is that stored user.              *)
SignInIff ==
    /\ last.res.ok <=>
          /\ WellFormed(last.inp.email)
          /\ \E r \in RowsFor(users, last.inp.email) :
                verify_password(r.password, last.inp.password) = Ok(TRUE)
    /\ last.res.ok =>
          \E r \in RowsFor(users, last.inp.email) :
              /\ last.res.val.user = UserOf(r)
              /\ verify_password(r.password, last.inp.password) = Ok(TRUE)

C5_SignInIff ==
    [][(Served("sign_in") /\ Undisturbed) => SignInIff']_vars

C5_Witness ==
    /\ last.op = "sign_in"
    /\ last.res.ok
    /\ last.inp.email # to_lowercase(last.inp.email)
    /\ Cardinality(users) = 2

(* C6: create, sign_up and update succeed with a new password only if it   *)
(* has 8 to 64 characters and an uppercase letter, a lowercase letter, a   *)
(* digit and a punctuation character.                                      *)
C6_PolicyEverywhere ==
    /\ (last.op \in {"create", "sign_up"} /\ last.res.ok)
          => MeetsPolicy(last.inp.password)
    /\ (last.op = "update" /\ last.res.ok /\ IsSome(last.inp.data.password))
          => MeetsPolicy(Unwrap(last.inp.data.password))

(* the phrase validate_password uses for each class a password lacks *)
MissingPhrases(p) ==
    (IF HasUpper(p) THEN {} ELSE {"uppercase letter required"})
    \cup (IF HasLower(p) THEN {} ELSE {"lowercase letter required"})
    \cup (IF HasDigit(p) THEN {} ELSE {"digit required"})
    \cup (IF HasSpecial(p) THEN {} ELSE {"special character required"})

AllPhrases == {"uppercase letter required", "lowercase letter required",
               "digit required", "special character required"}

(* C7: validate_password returns Ok exactly when the password has an       *)
(* uppercase letter, a lowercase letter, a digit and a punctuation         *)
(* character; when it fails, its one message names every missing class.    *)
C7_ValidatePassword ==
    IsSome(verdict) =>
        LET r == Unwrap(verdict) IN
        /\ r.ok <=> (HasUpper(pw) /\ HasLower(pw) /\ HasDigit(pw) /\ HasSpecial(pw))
        /\ ~r.ok =>
              /\ IsSome(r.err.message)
              /\ Range(Unwrap(r.err.message)) \cap AllPhrases = MissingPhrases(pw)

C7_Witness ==
    /\ IsSome(verdict)
    /\ ~Unwrap(verdict).ok
    /\ Cardinality(MissingPhrases(pw)) >= 2
    /\ Len(pw) > 0

(* the request of the step would give a stored user the email (compared    *)
(* in lowercase form) or the username of another stored user               *)
WouldDuplicate ==
    \/ /\ Served("create") \/ Served("sign_up")
       /\ \E r \in users :
             \/ to_lowercase(r.email) = to_lowercase(last'.inp.email)
             \/ r.username = last'.inp.username
    \/ /\ Served("update")
       /\ \E t \in UpdateTarget, r \in users :
             /\ r.id # t.id
             /\ \/ /\ IsSome(last'.inp.data.email)
                   /\ to_lowercase(r.email) = to_lowercase(Unwrap(last'.inp.data.email))
                \/ /\ IsSome(last'.inp.data.username)
                   /\ r.username = Unwrap(last'.inp.data.username)

NoDuplicates(tbl) ==
    \A r1, r2 \in tbl :
        r1 # r2 => /\ to_lowercase(r1.email) # to_lowercase(r2.email)
                   /\ r1.username # r2.username

(* C8: no two stored users ever have the same email or the same username,  *)
(* and a request that would make two do so stores nothing and returns an   *)
(* error.                                                                  *)
C8_Uniqueness ==
    [][/\ NoDuplicates(users')
       /\ WouldDuplicate => users' = users /\ ~last'.res.ok]_vars

C8_Witness ==
    /\ Cardinality(users) = 2
    /\ last.op = "update"
    /\ last.res = Err(DatabaseError(UniqueViolation))

(* C9: every stored email is in lowercase form; a successful create,       *)
(* sign_up or update returns and stores the lowercase form of the email    *)
(* it was sent.                                                            *)
C9_StoredEmailsLowercase ==
    /\ \A r \in users : r.email = to_lowercase(r.email)
    /\ (last.op \in {"create", "sign_up"} /\ last.res.ok) =>
          LET u == IF last.op = "create" THEN last.res.val ELSE last.res.val.user IN
          /\ u.email = to_lowercase(last.inp.email)
          /\ \E r \in users : r.id = u.id /\ r.email = u.email
    /\ (last.op = "update" /\ last.res.ok /\ IsSome(last.inp.data.email)) =>
          /\ last.res.val.email = to_lowercase(Unwrap(last.inp.data.email))
          /\ \E r \in users : r.id = last.res.val.id /\ r.email = last.res.val.email

C9_Witness ==
    /\ last.op = "update"
    /\ last.res.ok
    /\ IsSome(last.inp.data.email)
    /\ Unwrap(last.inp.data.email) # to_lowercase(Unwrap(last.inp.data.email))
    /\ \E r \in users : r.email = to_lowercase(Unwrap(last.inp.data.email))

(* C10: for a user created with email e, get_by_email and verify_user      *)
(* called with any case variant of e find that user, and the email         *)
(* returned is the lowercase form.                                         *)
C10_CaseInsensitiveLookup ==
    (last.op = "create" /\ last.res.ok) =>
        \A v \in EmailVariants :
            to_lowercase(v) = to_lowercase(last.inp.email) =>
                LET found == UsersStorage_get_by_email(users, v) IN
                /\ found = Ok(Some(last.res.val))
                /\ Unwrap(found.val).email = to_lowercase(last.inp.email)
                /\ \A p \in {PwGood, PwGood2, PwWeak} :
                      UsersStorage_verify_user(users, v, p)
                          = Ok(p = last.inp.password)

C10_Witness ==
    /\ last.op = "create"
    /\ last.res.ok
    /\ last.inp.email # to_lowercase(last.inp.email)
    /\ Cardinality(users) = 2

----------------------------------------------------------------------------
(* Pagination and search (SpecList) *)

Min(a, b) == IF a <= b THEN a ELSE b

(* the filter a list request is to hand to storage *)
ExactFilter(inp) ==
    [search |-> inp.search_query,
     limit |-> Some(I64(inp.per_page)),
     offset |-> Some(FullProduct(inp.page - 1, inp.per_page))]

(* C11: for every page >= 1 and every per_page, list queries storage with  *)
(* limit = per_page and offset = (page - 1) * per_page, the product taken  *)
(* in the integers.                                                        *)
C11_OffsetIsProduct ==
    (last.op = "list" /\ last.inp.page >= 1)
        => last.query = Some(ExactFilter(last.inp))

(* C12: list with page = 0 returns "Page must be greater than zero" for    *)
(* every per_page and search term, and asks storage nothing.               *)
C12_PageZeroRejected ==
    (last.op = "list" /\ last.inp.page = 0)
        => /\ last.res = Err(WrongCredentials(<<"Page must be greater than zero">>))
           /\ last.query = None

C12_Witness ==
    /\ last.op = "list"
    /\ last.inp.page = 0
    /\ last.inp.per_page > 0
    /\ IsSome(last.inp.search_query)
    /\ users # {}

(* the users of the table a search term selects, newest first *)
Selected(search) ==
    LET ordered == OrderNewestFirst(SqlMatches(users, search))
    IN [i \in 1..Len(ordered) |-> UserOf(ordered[i])]

(* page page of per_page users, out of n, holds no user *)
PageHoldsNoUsers(n, page, per_page) ==
    \/ per_page = 0
    \/ Min(page - 1, n + 1) * Min(per_page, n + 1) >= n

(* C13: for page >= 1, list returns NotFound exactly when the selected     *)
(* page holds no users (no matching record, a page past the last one,      *)
(* per_page = 0) and otherwise the page's users with total_count; in the   *)
(* same situation list_users succeeds with an empty list, and with         *)
(* total_count 0 when nothing matches.                                     *)
C13_EmptyPageIsNotFound ==
    (last.op = "list" /\ last.inp.page >= 1) =>
        LET all == Selected(last.inp.search_query)
            n == Len(all)
            empty == PageHoldsNoUsers(n, last.inp.page, last.inp.per_page)
            first == (last.inp.page - 1) * last.inp.per_page
            stored == UsersStorage_list_users(users, ExactFilter(last.inp))
        IN /\ (last.res = Err(NotFound)) <=> empty
           /\ ~empty => /\ last.res.ok
                        /\ last.res.val.users =
                              SubSeq(all, first + 1, Min(n, first + last.inp.per_page))
                        /\ last.res.val.total_count = n
           /\ empty => /\ stored.ok
                       /\ stored.val.users = <<>>
                       /\ (n = 0 => stored.val.total_count = 0)

(* the term occurs in the text, letter case aside *)
ContainsFolded(text, term) ==
    \E i \in 0..(Len(text) - Len(term)) :
        \A j \in 1..Len(term) : LowerChar(text[i + j]) = LowerChar(term[j])

(* C14: over one table, one search term and one per_page, two list_users   *)
(* calls at different offsets (multiples of per_page) return disjoint      *)
(* sets of users, each of at most per_page users, and the same             *)
(* total_count, the number of matching users.                              *)
C14_PagesDisjoint ==
    (last.op = "list" /\ last.inp.per_page >= 1) =>
        LET search == last.inp.search_query
            per_page == last.inp.per_page
            pages == [k \in 0..MaxIds |->
                        UsersStorage_list_users(users,
                            [search |-> search, limit |-> Some(I64(per_page)),
                             offset |-> Some(I64(k * per_page))])]
            n == Cardinality({u \in users :
                                \/ ~IsSome(search)
                                \/ ContainsFolded(u.username, Unwrap(search))
                                \/ ContainsFolded(u.email, Unwrap(search))})
        IN /\ \A k \in 0..MaxIds :
                /\ pages[k].ok
                /\ Len(pages[k].val.users) <= per_page
                /\ pages[k].val.total_count = n
           /\ \A k1 \in 0..MaxIds, k2 \in 0..MaxIds :
                k1 # k2 => Range(pages[k1].val.users)
                              \cap Range(pages[k2].val.users) = {}

C14_Witness ==
    /\ last.op = "list"
    /\ last.res.ok
    /\ last.inp.page = 2
    /\ last.inp.per_page = 1
    /\ last.res.val.total_count = 2

(* C15: list_users with a search term returns exactly the users whose      *)
(* username or email contains the term, letter case aside, and without a   *)
(* term all users; in both cases newest first.                             *)
C15_SearchAndOrder ==
    \A search \in SearchQueries \cup {Some(<<"B">>), Some(<<"@">>), Some(<<"z">>)} :
        LET r == UsersStorage_list_users(users,
                    [search |-> search, limit |-> None, offset |-> None])
            found == r.val.users
        IN /\ r.ok
           /\ Range(found) =
                {UserOf(u) : u \in
                    {u \in users :
                        \/ ~IsSome(search)
                        \/ ContainsFolded(u.username, Unwrap(search))
                        \/ ContainsFolded(u.email, Unwrap(search))}}
           /\ \A i \in 1..Len(found), j \in 1..Len(found) :
                 i < j => found[i].created_at >= found[j].created_at
           /\ \A i \in 1..Len(found), j \in 1..Len(found) :
                 i # j => found[i] # found[j]

C15_Witness ==
    /\ last.op = "list"
    /\ last.inp.search_query = Some(<<"b", "o">>)
    /\ last.res.ok
    /\ Len(last.res.val.users) = 1
    /\ Cardinality(users) = 2

----------------------------------------------------------------------------
(* Errors on the JSON surface (Spec) *)

ServiceErrorKinds == {"NotFound", "WrongCredentials", "DatabaseError", "VerificationError"}

(* C19: every UsersServiceError maps to one status: NotFound to 404,       *)
(* WrongCredentials to 400 with its message as body, DatabaseError and     *)
(* VerificationError to 500 with an empty body; none to a success status.  *)
C19_StatusMapping ==
    (last.op \in {"sign_in", "sign_up", "create", "update", "delete"}
        /\ ~last.res.ok) =>
        LET e == last.res.err IN
        /\ e.kind \in ServiceErrorKinds
        /\ e.kind = "NotFound" => last.http = [status |-> 404, body |-> <<>>]
        /\ e.kind = "WrongCredentials" => last.http = [status |-> 400, body |-> e.msg]
        /\ e.kind \in {"DatabaseError", "VerificationError"}
              => last.http = [status |-> 500, body |-> <<>>]
        /\ last.http.status \notin 200..299

C19_Witness ==
    /\ last.op = "sign_in"
    /\ ~last.res.ok
    /\ last.res.err.kind = "VerificationError"
    /\ last.http.status = 500

(* the rules of its request type a request violates, as field names *)
ViolatedRules(op, inp) ==
    (IF ValidateEmail(inp.email) # <<>> THEN <<"email">> ELSE <<>>)
    \o (IF op # "sign_in" /\ ~(Len(inp.password) \in 8..64)
          THEN <<"password">> ELSE <<>>)
    \o (IF op # "sign_in" /\ ~(HasUpper(inp.password) /\ HasLower(inp.password)
                               /\ HasDigit(inp.password) /\ HasSpecial(inp.password))
          THEN <<"password">> ELSE <<>>)

(* the "field: message" entries of a semicolon-joined message, as the      *)
(* fields they name                                                        *)
EntryFields(m) ==
    LET starts == {i \in 1..Len(m) : i = 1 \/ m[i - 1] = ";"}
    IN [k \in 1..Cardinality(starts) |->
          m[CHOOSE i \in starts : Cardinality({j \in starts : j < i}) = k - 1]]

(* C20: a request that fails validation (create, sign_up, sign_in) yields  *)
(* WrongCredentials whose message holds one "field: message" entry for     *)
(* every violated rule of every invalid field.                             *)
C20_ValidationMessage ==
    (last.op \in {"create", "sign_up", "sign_in"}
        /\ ViolatedRules(last.op, last.inp) # <<>>) =>
            /\ ~last.res.ok
            /\ last.res.err.kind = "WrongCredentials"
            /\ EntryFields(last.res.err.msg) = ViolatedRules(last.op, last.inp)

----------------------------------------------------------------------------
(* The HTML forms and the session (SpecWeb) *)

JsonOps == {"sign_in", "sign_up", "create", "update", "delete", "list"}
FormOps == {"login_form", "signup_form"}
InternalErrorKinds == {"DatabaseError", "VerificationError"}

(* the error texts a response shows *)
ErrorTexts(response) ==
    IF response.kind # "form" THEN {}
    ELSE {Unwrap(response.form[f]) :
            f \in {g \in DOMAIN response.form \cap
                           {"username_error", "email_error", "password_error"} :
                        IsSome(response.form[g])}}

(* C16: the reason text of a DatabaseError or VerificationError never      *)
(* appears in the response, on the JSON API and on the login and signup    *)
(* forms alike.                                                            *)
C16_NoReasonInResponse ==
    /\ (last.op \in JsonOps /\ ~last.res.ok
            /\ last.res.err.kind \in InternalErrorKinds)
          => Range(last.http.body) \cap Range(last.res.err.msg) = {}
    /\ (last.op \in FormOps /\ IsSome(last.service)
            /\ ~Unwrap(last.service).ok
            /\ Unwrap(last.service).err.kind \in InternalErrorKinds)
          => \A text \in ErrorTexts(last.response) :
                Range(text) \cap Range(Unwrap(last.service).err.msg) = {}

(* C17: when the submitted csrf_token fails verification, login_form and   *)
(* signup_form call neither sign_in nor sign_up, log no session in,        *)
(* create no user and return the form with an error.                       *)
C17_CsrfGate ==
    [][(/\ last'.n # last.n
        /\ last'.op \in FormOps
        /\ last'.inp.form.csrf_token # last'.inp.cookie) =>
          /\ last'.service = None
          /\ session' = session
          /\ users' = users
          /\ last'.response.kind = "form"
          /\ last'.op = "login_form"
                => last'.response.form.email_error = Some(<<"Invalid CSRF token">>)
          /\ last'.op = "signup_form"
                => last'.response.form.username_error = Some(<<"wrong csrf">>)]_vars

C17_Witness ==
    /\ last.op = "signup_form"
    /\ last.inp.form.csrf_token # last.inp.cookie
    /\ last.inp.form.password = PwGood
    /\ NoFormError(last.inp.form.email_error)
    /\ NoFormError(last.inp.form.password_error)
    /\ users = {}
    /\ last.response.kind = "form"

(* C18: a session becomes authenticated as u only by a login_form or       *)
(* signup_form of that session whose sign_in or sign_up returned u, and     *)
(* sign_out leaves the session without a current user; nothing else        *)
(* changes a session.                                                      *)
C18_SessionLifecycle ==
    [][/\ \A s \in Sessions :
            session'[s] # session[s] =>
                \/ /\ last'.op = "sign_out"
                   /\ last'.inp.session = s
                   /\ session'[s] = None
                \/ /\ last'.op \in FormOps
                   /\ last'.inp.session = s
                   /\ IsSome(last'.service)
                   /\ Unwrap(last'.service).ok
                   /\ session'[s] = Some(IdString(Unwrap(last'.service).val.user.id))
       /\ last'.op = "sign_out" => session'[last'.inp.session] = None]_vars

C18_Witness ==
    /\ last.op = "login_form"
    /\ IsSome(last.service)
    /\ Unwrap(last.service).ok
    /\ session[last.inp.session] = Some(IdString(Unwrap(last.service).val.user.id))
    /\ \E s \in Sessions : session[s] = None

----------------------------------------------------------------------------
(* Credentials and tokens (Spec) *)

(* strings that are no PHC string *)
Unparsable(s) == Len(s) < 3 \/ s[1] # "$argon2id$v=19$m=19456,t=2,p=1$"

TriedPasswords == {PwGood, PwGood2, PwWeak}

(* C22: a stored hash that cannot be parsed is an error, not a mismatch:   *)
(* verify_password and verify_user return Err for it and sign_in returns   *)
(* VerificationError, not the generic WrongCredentials; verify_user also   *)
(* returns Err when no user has the email.                                 *)
C22_UnparsableIsError ==
    /\ \A p \in TriedPasswords : ~verify_password(<<"invalid_hash">>, p).ok
    /\ \A r \in users : \A p \in TriedPasswords :
          Unparsable(r.password) =>
              /\ ~verify_password(r.password, p).ok
              /\ ~UsersStorage_verify_user(users, r.email, p).ok
    /\ \A e \in Emails : \A p \in TriedPasswords :
          RowsFor(users, e) = {} => ~UsersStorage_verify_user(users, e, p).ok
    /\ (last.op = "sign_in" /\ WellFormed(last.inp.email)
            /\ \E r \in RowsFor(users, last.inp.email) : Unparsable(r.password))
          => /\ ~last.res.ok
             /\ last.res.err.kind = "VerificationError"

C22_Witness ==
    /\ last.op = "sign_in"
    /\ \E r \in RowsFor(users, last.inp.email) :
          Unparsable(r.password) /\ r.password = last.inp.password
    /\ last.res.err.kind = "VerificationError"

(* C23: a successful sign_in or sign_up returns a token whose subject is   *)
(* the id of the returned user, whose email claim is that user's stored    *)
(* email and whose expiry is the issue time plus 7 days; a failed one      *)
(* returns no token.                                                       *)
C23_TokenClaims ==
    [][((Served("sign_in") \/ Served("sign_up")) /\ Undisturbed) =>
          IF last'.res.ok
          THEN LET user == last'.res.val.user
                   token == last'.res.val.token
               IN /\ user \in {UserOf(r) : r \in users'}
                  /\ user.email = to_lowercase(last'.inp.email)
                  /\ token.sub = IdString(user.id)
                  /\ token.email = user.email
                  /\ token.exp = now + 7 * 24 * 60 * 60
                  /\ last'.http.body.token = token
          ELSE /\ last'.res.val = NoVal
               /\ last'.http.status # StatusOk]_vars

C23_Witness ==
    /\ last.op = "sign_in"
    /\ last.res.ok
    /\ last.res.val.token.exp = now + 7 * 24 * 60 * 60
    /\ now = 2

----------------------------------------------------------------------------
(* Frames of delete and update (Spec) *)

(* the ids that are well-formed uuid strings *)
WellFormedIds == {IdString(i) : i \in 1..MaxIds}

(* the stored rows the id string of the request names *)
Named(id) == {r \in users : IdString(r.id) = id}

(* C24: delete of a stored id returns that id, removes exactly that user   *)
(* and leaves every other user unchanged, and get_by_id then finds         *)
(* nothing; delete of an id that is not stored removes nothing and is      *)
(* NotFound; a malformed id is WrongCredentials("Wrong id format").        *)
C24_DeleteFrame ==
    [][Served("delete") =>
        LET id == last'.inp IN
        /\ id \notin WellFormedIds
              => /\ last'.res = Err(WrongCredentials(<<"Wrong id format">>))
                 /\ users' = users
        /\ (id \in WellFormedIds /\ Named(id) = {})
              => /\ last'.res = Err(NotFound)
                 /\ users' = users
        /\ Named(id) # {}
              => /\ Cardinality(Named(id)) = 1
                 /\ last'.res.ok
                 /\ IdString(last'.res.val) = id
                 /\ users' = users \ Named(id)
                 /\ UsersService_get_by_id(users', id) = Err(NotFound)
                 /\ UsersService_delete(users', id).res = Err(NotFound)]_vars

(* a second delete of an id that was stored and deleted before *)
C24_Witness ==
    /\ last.op = "delete"
    /\ last.inp = IdString(1)
    /\ last.res = Err(NotFound)
    /\ nextId = 2
    /\ users = {}
    /\ now = 3

(* C25: update never changes a user's id or created_at and never touches  *)
(* another user; after a successful update the stored user with that id    *)
(* carries the supplied username, lowercased email, names and bio; update  *)
(* of an id that is not stored changes nothing and reports NotFound.       *)
C25_UpdateFrame ==
    [][(Served("update") /\ Undisturbed) =>
        LET id == last'.inp.user_id
            data == last'.inp.data
        IN
        /\ \A r \in users : IdString(r.id) # id => r \in users'
        /\ Cardinality(users') = Cardinality(users)
        /\ \A r \in users :
              \E s \in users' : s.id = r.id /\ s.created_at = r.created_at
        /\ last'.res.ok =>
              \E old \in Named(id) : \E new \in users' :
                  /\ new.id = old.id
                  /\ new.created_at = old.created_at
                  /\ last'.res.val = UserOf(new)
                  /\ IsSome(data.username) => new.username = Unwrap(data.username)
                  /\ IsSome(data.email)
                        => new.email = to_lowercase(Unwrap(data.email))
                  /\ IsSome(data.first_name) => new.first_name = data.first_name
                  /\ IsSome(data.last_name) => new.last_name = data.last_name
                  /\ IsSome(data.bio) => new.bio = data.bio
        /\ (id \in WellFormedIds /\ Named(id) = {})
              => /\ last'.res = Err(NotFound)
                 /\ users' = users]_vars

(* a successful update of one of two stored users that supplied a first   *)
(* name and a bio                                                          *)
C25_Witness ==
    /\ last.op = "update"
    /\ last.res.ok
    /\ Cardinality(users) = 2
    /\ IsSome(last.inp.data.first_name)
    /\ IsSome(last.inp.data.bio)
    /\ last.inp.data.first_name # last.inp.data.bio
    /\ \E r \in users :
          /\ IdString(r.id) = last.inp.user_id
          /\ r.first_name = last.inp.data.first_name
          /\ r.bio = last.inp.data.bio
          /\ r.created_at < now - 1

----------------------------------------------------------------------------
(* The signup form's confirmation field (SpecWeb) *)

(* C30: signup_form never creates an account and never logs a session in   *)
(* when the form's password and confirm_password differ.                   *)
C30_ConfirmPasswordChecked ==
    [][(Served("signup_form")
          /\ last'.inp.form.password # last'.inp.form.confirm_password)
        => /\ users' = users
           /\ session' = session]_vars

----------------------------------------------------------------------------
(* Requests in flight together (Spec, SpecList, SpecFault) *)

(* client c's sign_up runs its create query and answers in this step *)
SignUpFinishes(c) ==
    /\ inflight[c].pc = "sign_up_create"
    /\ inflight'[c] = Idle

(* C26: when two sign_up requests with the same case-folded email both     *)
(* perform the lookup before either persists, one creates a user and the   *)
(* other is rejected as WrongCredentials("Email already exists"), never    *)
(* as a DatabaseError.  The request that persists second is the one whose  *)
(* lookup found nothing and that meets the row the other sign_up has just  *)
(* persisted under its email (and none with its username).                 *)
C26_InterleavedSignUps ==
    [][\A c \in Clients :
          (/\ SignUpFinishes(c)
           /\ inflight[c].found = Ok(None)
           /\ last.op = "sign_up" /\ last.res.ok
           /\ last.res.val.user \in
                 {UserOf(r) : r \in RowsFor(users, inflight[c].user_data.email)}
           /\ \A r \in users : r.username # inflight[c].user_data.username)
          => /\ users' = users
             /\ Cardinality(RowsFor(users', inflight[c].user_data.email)) = 1
             /\ last'.res = Err(WrongCredentials(<<"Email already exists">>))
             /\ last'.res.err.kind # "DatabaseError"]_vars

(* C27: with a working store and a well-formed email, sign_in returns      *)
(* success or the generic WrongCredentials("Invalid email or password")    *)
(* under every interleaving, a delete of the user between the lookup and   *)
(* the verification included.                                              *)
C27_SignInOutcomes ==
    (last.op = "sign_in" /\ WellFormed(last.inp.email))
        => \/ last.res.ok
           \/ last.res.err = WrongCredentials(<<"Invalid email or password">>)

(* C28: a list response holds no more users than its total_count, also     *)
(* when accounts are created and deleted between the count query and the   *)
(* page query.                                                             *)
C28_ListConsistent ==
    (last.op = "list" /\ last.res.ok)
        => Len(last.res.val.users) <= last.res.val.total_count

(* C29: sign_up persists a user only after its lookup succeeded and        *)
(* reported that no user has the email; if the lookup fails, sign_up       *)
(* creates nothing and returns an error.                                   *)
C29_LookupBeforePersist ==
    [][\A c \in Clients :
          SignUpFinishes(c) =>
              /\ users' # users => inflight[c].found = Ok(None)
              /\ ~inflight[c].found.ok => (users' = users /\ ~last'.res.ok)]_vars

====
